---------------------------- MODULE Spec2Model ----------------------------
(***************************************************************************)
(* Learning Buddy Agent: the core logic of app.py (_normalize_text,        *)
(* check_answers, _parse_quiz_json, the completion client and the two      *)
(* generate_* functions) and the Streamlit session of ui.py.               *)
(*                                                                         *)
(* A text is a sequence of characters; a character is a one-character      *)
(* string, or the code point name of a non-ASCII character ("U+2102").     *)
(* Python's None is the empty tuple <<>> and a present value x is <<x>>.   *)
(***************************************************************************)
EXTENDS Integers, Sequences, FiniteSets, TLC

VARIABLES
    pc,                 \* position of the running call or script run
    norm_s, norm_ret,   \* _normalize_text: argument, return value
    ca_user, ca_correct, ca_ret,   \* check_answers: arguments, (score, feedback)
    pq_text, pq_ret,    \* _parse_quiz_json: argument, outcome
    api_key,            \* os.getenv("OPENAI_API_KEY")
    requests,           \* client.chat.completions.create calls issued so far
    run_start,          \* the value of requests when the current action began
    calls,              \* completion calls begun by the current (last) action
    responses,          \* how each of those calls ended
    raised,             \* the exception that ended the current (last) action
    api_ret,            \* return value of the last public generate_* call
    action,             \* the widget that triggered the current (last) script run
    topic_input,        \* the Topic text box
    quiz, topic, explanation, user_answers, score, feedback   \* st.session_state

normVars == <<norm_s, norm_ret>>
checkVars == <<ca_user, ca_correct, ca_ret>>
parseVars == <<pq_text, pq_ret>>
clientVars == <<api_key, requests, run_start, calls, responses, raised>>
sessionVars == <<quiz, topic, explanation, user_answers, score, feedback>>
uiVars == <<action, topic_input>>
vars == <<pc, normVars, checkVars, parseVars, clientVars, api_ret, uiVars, sessionVars>>

None == <<>>
Some(x) == <<x>>

-----------------------------------------------------------------------------
(* Bounds of the model.                                                    *)
MaxLen == 4            \* longest enumerated text given to _normalize_text
MaxAnswers == 2        \* longest answer list given to check_answers
MaxItems == 2          \* longest item list in a parsed quiz reply
MaxRequests == 4       \* completion calls issued in one behaviour

BoundedSeq(S, n) == UNION {[1..k -> S] : k \in 0..n}

-----------------------------------------------------------------------------
(* Characters and their classes, as Python's str and re see them.          *)
LowerLetters ==
    <<"a","b","c","d","e","f","g","h","i","j","k","l","m",
      "n","o","p","q","r","s","t","u","v","w","x","y","z">>
UpperLetters ==
    <<"A","B","C","D","E","F","G","H","I","J","K","L","M",
      "N","O","P","Q","R","S","T","U","V","W","X","Y","Z">>
Digits == {"0","1","2","3","4","5","6","7","8","9"}
Range(f) == {f[i] : i \in DOMAIN f}
\* U+2102 (DOUBLE-STRUCK CAPITAL C): an uppercase letter (str.isupper) that
\* str.lower leaves alone. U+0130 (CAPITAL I WITH DOT ABOVE): its lowercase
\* is the two characters "i", U+0307, and U+0307 (a combining mark) is not a
\* word character.
UncasedUpper == {"U+2102"}
Punctuation == {"-", "!", "'", ".", ",", "?", "U+0307"}
SpaceChars == {" ", "\t", "\n"}
\* \w of a str pattern: alphanumeric or the underscore.
WordChars ==
    Range(LowerLetters) \cup Range(UpperLetters) \cup Digits
      \cup UncasedUpper \cup {"U+0130", "_"}
AllChars == WordChars \cup Punctuation \cup SpaceChars
\* [\W_]: not a word character, or the underscore.
NonWordOrUnderscore == (AllChars \ WordChars) \cup {"_"}
IsUpper(c) == c \in Range(UpperLetters) \cup UncasedUpper \cup {"U+0130"}

LowerChar(c) ==
    IF c \in Range(UpperLetters)
      THEN <<LowerLetters[CHOOSE i \in 1..26 : UpperLetters[i] = c]>>
    ELSE IF c = "U+0130" THEN <<"i", "U+0307">>
    ELSE <<c>>

RECURSIVE Lower(_)
Lower(s) == IF s = <<>> THEN <<>> ELSE LowerChar(Head(s)) \o Lower(Tail(s))

RECURSIVE LStrip(_)
LStrip(s) ==
    IF s # <<>> /\ Head(s) \in SpaceChars THEN LStrip(Tail(s)) ELSE s

RECURSIVE RStrip(_)
RStrip(s) ==
    IF s # <<>> /\ s[Len(s)] \in SpaceChars
      THEN RStrip(SubSeq(s, 1, Len(s) - 1)) ELSE s

Strip(s) == RStrip(LStrip(s))

RECURSIVE DropRun(_, _)
DropRun(s, class) ==
    IF s # <<>> /\ Head(s) \in class THEN DropRun(Tail(s), class) ELSE s

\* re.sub(class+, " ", s): every maximal run of class characters becomes " ".
RECURSIVE ReSubRuns(_, _)
ReSubRuns(s, class) ==
    IF s = <<>> THEN <<>>
    ELSE IF Head(s) \in class
      THEN <<" ">> \o ReSubRuns(DropRun(s, class), class)
    ELSE <<Head(s)>> \o ReSubRuns(Tail(s), class)

-----------------------------------------------------------------------------
(* _normalize_text (app.py 105-109).                                       *)

\* The pattern written as \W+ : underscores survive.
NormalizeKeepUnderscore(s) ==
    Strip(ReSubRuns(ReSubRuns(Strip(Lower(s)), AllChars \ WordChars), SpaceChars))

\* The last .strip() forgotten.
NormalizeNoFinalStrip(s) ==
    ReSubRuns(ReSubRuns(Strip(Lower(s)), NonWordOrUnderscore), SpaceChars)

\* The separators deleted instead of replaced by a space.
NormalizeDeletePunctuation(s) ==
    Strip(ReSubRuns(SelectSeq(Strip(Lower(s)),
                              LAMBDA c : c \notin NonWordOrUnderscore \ SpaceChars),
                    SpaceChars))

_normalize_text(s) ==
    LET s1 == Strip(Lower(s))                       \* s.lower().strip()
        s2 == ReSubRuns(s1, NonWordOrUnderscore)    \* re.sub(r"[\W_]+", " ", s)
        s3 == Strip(ReSubRuns(s2, SpaceChars))      \* re.sub(r"\s+", " ", s).strip()
    IN  s3

\* The texts the specification's examples use.
PhotoSynthesisBang ==
    <<"P","h","o","t","o","-","s","y","n","t","h","e","s","i","s","!">>
Photosynthesis == <<"p","h","o","t","o","s","y","n","t","h","e","s","i","s">>
PhotoSpaceSynthesis ==
    <<"p","h","o","t","o"," ","s","y","n","t","h","e","s","i","s">>
ExampleTexts == {PhotoSynthesisBang, Photosynthesis, PhotoSpaceSynthesis}

\* The characters the enumerated texts are made of: one or two of each class.
Alphabet == {"a", "B", "1", "_", "-", " ", "\t", "U+2102", "U+0130"}
Texts == BoundedSeq(Alphabet, MaxLen) \cup ExampleTexts

NormIdle == norm_s = <<>> /\ norm_ret = <<>>
CheckIdle == ca_user = <<>> /\ ca_correct = <<>> /\ ca_ret = <<>>
ParseIdle == pq_text = <<>> /\ pq_ret = <<>>
ClientIdle ==
    /\ api_key = None /\ requests = 0 /\ run_start = 0
    /\ calls = <<>> /\ responses = <<>> /\ raised = "none"
SessionIdle ==
    /\ quiz = <<>> /\ topic = <<>> /\ explanation = <<>>
    /\ user_answers = <<>> /\ score = None /\ feedback = <<>>
UiIdle == action = "none" /\ topic_input = <<>> /\ api_ret = <<>>

InitNormalize ==
    /\ pc = "call"
    /\ norm_s \in Texts
    /\ norm_ret = <<>>
    /\ CheckIdle /\ ParseIdle /\ ClientIdle /\ SessionIdle /\ UiIdle

Normalize ==
    /\ pc = "call"
    /\ norm_ret' = _normalize_text(norm_s)
    /\ pc' = "done"
    /\ UNCHANGED <<norm_s, checkVars, parseVars, clientVars, api_ret, uiVars, sessionVars>>

NextNormalize == Normalize
SpecNormalize == InitNormalize /\ [][NextNormalize]_vars

-----------------------------------------------------------------------------
(* Claims about _normalize_text, checked under SpecNormalize.              *)

UpperAsciiChar(c) ==
    IF c \in Range(LowerLetters)
      THEN UpperLetters[CHOOSE i \in 1..26 : LowerLetters[i] = c]
      ELSE c
UpperAscii(s) == [i \in DOMAIN s |-> UpperAsciiChar(s[i])]
PunctuationMarks == Punctuation \cup {"_"}
WithoutPunctuation(s) == SelectSeq(s, LAMBDA c : c \notin PunctuationMarks)
PunctuationAsSpace(s) ==
    [i \in DOMAIN s |-> IF s[i] \in PunctuationMarks THEN " " ELSE s[i]]
RECURSIVE RTrimMarks(_)
RTrimMarks(s) ==
    IF s # <<>> /\ s[Len(s)] \in PunctuationMarks \cup SpaceChars
      THEN RTrimMarks(SubSeq(s, 1, Len(s) - 1)) ELSE s
\* s without the punctuation and whitespace before and after its letters.
TrimMarks(s) == RTrimMarks(DropRun(s, PunctuationMarks \cup SpaceChars))
HasInnerPunctuation(s) ==
    \E i, j, k \in DOMAIN s :
        /\ i < j /\ j < k
        /\ s[i] \in WordChars \ {"_"}
        /\ s[j] \in PunctuationMarks
        /\ s[k] \in WordChars \ {"_"}

\* C3 as stated: a text whose punctuation stands between or after its
\* letters normalizes to the same text as its letters alone, in either case.
C3_PunctuationInsensitive ==
    (pc = "done" /\ norm_s # <<>> /\ norm_s[1] \notin PunctuationMarks)
        => norm_ret = _normalize_text(UpperAscii(WithoutPunctuation(norm_s)))

\* C3 (amended): normalization ignores letter case and the punctuation
\* before and after the letters; a punctuation mark between two letters
\* counts as a space does and leaves a word break, so "Photo-synthesis!"
\* normalizes to "photo synthesis", not to "photosynthesis".
C3_CaseInsensitivePunctuationAsSpace ==
    pc = "done" =>
        /\ norm_ret = _normalize_text(UpperAscii(norm_s))
        /\ norm_ret = _normalize_text(TrimMarks(norm_s))
        /\ norm_ret = _normalize_text(PunctuationAsSpace(norm_s))
        /\ norm_s = PhotoSynthesisBang =>
              /\ norm_ret = PhotoSpaceSynthesis
              /\ norm_ret # _normalize_text(Photosynthesis)

C3_Witness ==
    /\ pc = "done"
    /\ HasInnerPunctuation(norm_s)
    /\ \E i \in DOMAIN norm_s : norm_s[i] \in Range(UpperLetters)
    /\ norm_s[Len(norm_s)] \in PunctuationMarks
    /\ norm_ret # _normalize_text(WithoutPunctuation(norm_s))

\* The reference normalization: the maximal runs of word characters of the
\* lowercased text, joined by single spaces.
RECURSIVE TakeRun(_, _)
TakeRun(s, class) ==
    IF s # <<>> /\ Head(s) \in class
      THEN <<Head(s)>> \o TakeRun(Tail(s), class) ELSE <<>>
RECURSIVE WordsOf(_, _)
WordsOf(s, word) ==
    IF s = <<>> THEN <<>>
    ELSE IF Head(s) \in word
      THEN <<TakeRun(s, word)>> \o WordsOf(DropRun(s, word), word)
    ELSE WordsOf(Tail(s), word)
RECURSIVE JoinWords(_)
JoinWords(ws) ==
    IF ws = <<>> THEN <<>>
    ELSE IF Len(ws) = 1 THEN ws[1]
    ELSE ws[1] \o <<" ">> \o JoinWords(Tail(ws))
ReferenceNormalize(s, word) == JoinWords(WordsOf(Lower(s), word))

\* C4 as stated: the result is the reference normalization in which the
\* underscore is a word character and is kept.
C4_ReferenceKeepsUnderscore ==
    pc = "done" => norm_ret = ReferenceNormalize(norm_s, WordChars)

\* C4 (amended): the result is the reference normalization in which a word
\* character is a letter or a digit; the underscore separates words like any
\* other non-word character and never appears in the result.
C4_ReferenceUnderscoreSeparates ==
    pc = "done" =>
        /\ norm_ret = ReferenceNormalize(norm_s, WordChars \ {"_"})
        /\ \A i \in DOMAIN norm_ret : norm_ret[i] # "_"

C4_Witness ==
    /\ pc = "done"
    /\ \E i, j, k \in DOMAIN norm_s :
          /\ i < j /\ j < k
          /\ norm_s[i] = "a" /\ norm_s[j] = "_" /\ norm_s[k] = "1"
    /\ Len(norm_ret) >= 3

HasNoStraySpace(s) ==
    /\ s # <<>> => s[1] # " " /\ s[Len(s)] # " "
    /\ \A i \in DOMAIN s : s[i] \in SpaceChars => s[i] = " "
    /\ \A i \in 1..(Len(s) - 1) : ~(s[i] = " " /\ s[i + 1] = " ")

\* C5 as stated: normalization is idempotent, and its result has no leading,
\* trailing or doubled space and no uppercase letter.
C5_IdempotentNoUppercase ==
    pc = "done" =>
        /\ _normalize_text(norm_ret) = norm_ret
        /\ HasNoStraySpace(norm_ret)
        /\ \A i \in DOMAIN norm_ret : ~IsUpper(norm_ret[i])

\* C5 (amended): normalization is idempotent, and its result has no leading,
\* trailing or doubled space and no letter that has a lowercase form other
\* than itself (an uppercase letter without one, such as U+2102, stays).
C5_IdempotentLowercased ==
    pc = "done" =>
        /\ _normalize_text(norm_ret) = norm_ret
        /\ HasNoStraySpace(norm_ret)
        /\ \A i \in DOMAIN norm_ret : LowerChar(norm_ret[i]) = <<norm_ret[i]>>

C5_Witness ==
    /\ pc = "done"
    /\ norm_ret # norm_s
    /\ \E i \in DOMAIN norm_s : norm_s[i] \in SpaceChars \cup Punctuation
    /\ \E i \in DOMAIN norm_s : IsUpper(norm_s[i])
    /\ Len(norm_ret) >= 3

-----------------------------------------------------------------------------
(* check_answers (app.py 112-128).                                         *)

\* Python's "a in b" for two strings.
IsSubstring(a, b) ==
    \E k \in 0..(Len(b) - Len(a)) : SubSeq(b, k + 1, k + Len(a)) = a

\* The guard "user and" forgotten: an empty answer is in every text.
IsCorrectUnguarded(user, correct) ==
    user = correct \/ IsSubstring(user, correct) \/ IsSubstring(correct, user)

\* Only one direction of containment.
IsCorrectOneWay(user, correct) ==
    user = correct \/ (user # <<>> /\ IsSubstring(user, correct))

\* Line 121, on the two normalized texts; a str is true when it is not empty.
IsCorrect(user, correct) ==
    \/ user = correct
    \/ (user # <<>> /\ IsSubstring(user, correct))
    \/ (correct # <<>> /\ IsSubstring(correct, user))

CorrectMessage == <<"Correct!">>
NotQuiteMessage(answer) == <<"Not quite. Expected: ">> \o answer

Min(a, b) == IF a < b THEN a ELSE b

\* The body of the loop, from item i on; acc is <<score, feedback>>.
RECURSIVE CheckLoop(_, _, _, _, _)
CheckLoop(users, corrects, i, total, acc) ==
    IF i > total THEN acc
    ELSE LET user == _normalize_text(users[i])
             correct == _normalize_text(corrects[i])
         IN  IF IsCorrect(user, correct)
               THEN CheckLoop(users, corrects, i + 1, total,
                              <<acc[1] + 1, Append(acc[2], CorrectMessage)>>)
               ELSE CheckLoop(users, corrects, i + 1, total,
                              <<acc[1], Append(acc[2], NotQuiteMessage(corrects[i]))>>)

\* The score counted outside the if: one point per item.
CheckAnswersCountAll(users, corrects) ==
    LET r == CheckLoop(users, corrects, 1, Min(Len(users), Len(corrects)), <<0, <<>>>>)
    IN  <<Len(r[2]), r[2]>>

check_answers(users, corrects) ==
    CheckLoop(users, corrects, 1, Min(Len(users), Len(corrects)), <<0, <<>>>>)

\* The raw answers the lists are drawn from: empty, punctuation only, one
\* letter, a word, the word in another case with punctuation, a phrase that
\* holds the word, an unrelated word.
AnswerPool ==
    { <<>>,
      <<"?", " ">>,
      <<"a">>,
      <<"c", "a", "t">>,
      <<"C", "a", "t", "!">>,
      <<"a", " ", "c", "a", "t">>,
      <<"d", "o", "g">> }

InitCheck ==
    /\ pc = "call"
    /\ ca_user \in BoundedSeq(AnswerPool, MaxAnswers)
    /\ ca_correct \in BoundedSeq(AnswerPool, MaxAnswers)
    /\ ca_ret = <<>>
    /\ NormIdle /\ ParseIdle /\ ClientIdle /\ SessionIdle /\ UiIdle

CheckAnswers ==
    /\ pc = "call"
    /\ ca_ret' = check_answers(ca_user, ca_correct)
    /\ pc' = "done"
    /\ UNCHANGED <<ca_user, ca_correct, normVars, parseVars, clientVars, api_ret,
                   uiVars, sessionVars>>

NextCheck == CheckAnswers
SpecCheck == InitCheck /\ [][NextCheck]_vars

-----------------------------------------------------------------------------
(* Claims about check_answers, checked under SpecCheck.                    *)

ca_total == Min(Len(ca_user), Len(ca_correct))
ca_score == ca_ret[1]
ca_feedback == ca_ret[2]
\* a occurs in b: b is some prefix, then a, then some suffix.
Occurs(a, b) ==
    \E i \in 1..(Len(b) + 1) : \E j \in (i - 1)..Len(b) : SubSeq(b, i, j) = a

\* C1: item i is judged correct exactly when u == c, or u is non-empty and
\* occurs in c, or c is non-empty and occurs in u (u, c the normalized
\* answers); its feedback is then "Correct!" and otherwise "Not quite.
\* Expected: " followed by the original correct answer.
C1_JudgementAndFeedback ==
    pc = "done" =>
        \A i \in 1..ca_total :
            LET u == _normalize_text(ca_user[i])
                c == _normalize_text(ca_correct[i])
                judged == \/ u = c
                          \/ (Len(u) > 0 /\ Occurs(u, c))
                          \/ (Len(c) > 0 /\ Occurs(c, u))
            IN  /\ Len(ca_feedback) >= i
                /\ judged => ca_feedback[i] = <<"Correct!">>
                /\ ~judged =>
                      ca_feedback[i] = <<"Not quite. Expected: ">> \o ca_correct[i]

C1_Witness ==
    /\ pc = "done"
    /\ ca_total = 2
    /\ ca_feedback[1] = <<"Correct!">>
    /\ _normalize_text(ca_user[1]) # _normalize_text(ca_correct[1])
    /\ Len(ca_user[1]) > Len(ca_correct[1])
    /\ ca_feedback[2] = <<"Not quite. Expected: ", "C", "a", "t", "!">>

\* C2: the feedback has min(len(user_answers), len(correct_answers)) entries,
\* the score is the number of "Correct!" entries, items past the shared
\* prefix change nothing, and an empty list on either side gives (0, []).
C2_LengthAndScore ==
    pc = "done" =>
        /\ Len(ca_feedback) = ca_total
        /\ ca_score = Cardinality({i \in 1..ca_total : ca_feedback[i] = <<"Correct!">>})
        /\ 0 <= ca_score /\ ca_score <= ca_total
        /\ ca_ret = check_answers(SubSeq(ca_user, 1, ca_total),
                                  SubSeq(ca_correct, 1, ca_total))
        /\ (ca_user = <<>> \/ ca_correct = <<>>) => ca_ret = <<0, <<>>>>

C2_Witness ==
    /\ pc = "done"
    /\ Len(ca_user) > Len(ca_correct)
    /\ ca_total >= 1
    /\ ca_score = ca_total
    /\ ca_user[Len(ca_user)] = <<"d", "o", "g">>
    /\ Len(ca_feedback) < Len(ca_user)

\* C6 as stated: a user answer whose normalized form is empty or one letter
\* and is a substring of the normalized correct answer is marked correct,
\* the empty one against a non-empty correct answer included.
C6_EmptyOrShortSubstringCorrect ==
    pc = "done" =>
        \A i \in 1..ca_total :
            LET u == _normalize_text(ca_user[i])
                c == _normalize_text(ca_correct[i])
            IN  (Len(u) <= 1 /\ Occurs(u, c)) => ca_feedback[i] = <<"Correct!">>

\* C6 (amended): a user answer whose normalized form is non-empty, however
\* short, and a substring of the normalized correct answer is marked correct
\* ("a" against "cat"); one whose normalized form is empty is marked correct
\* only against a correct answer that normalizes to the empty text too, and
\* incorrect against every other.
C6_ShortSubstringCorrectEmptyNot ==
    pc = "done" =>
        \A i \in 1..ca_total :
            LET u == _normalize_text(ca_user[i])
                c == _normalize_text(ca_correct[i])
            IN  /\ (Len(u) >= 1 /\ Occurs(u, c)) => ca_feedback[i] = <<"Correct!">>
                /\ (u = <<>> /\ c # <<>>) =>
                      ca_feedback[i] = <<"Not quite. Expected: ">> \o ca_correct[i]
                /\ (u = <<>> /\ c = <<>>) => ca_feedback[i] = <<"Correct!">>

C6_Witness ==
    /\ pc = "done"
    /\ ca_user = << <<"a">>, <<"?", " ">> >>
    /\ ca_correct = << <<"c", "a", "t">>, <<"c", "a", "t">> >>
    /\ ca_ret = <<1, << <<"Correct!">>, <<"Not quite. Expected: ", "c", "a", "t">> >> >>

-----------------------------------------------------------------------------
(* _parse_quiz_json (app.py 63-84).                                        *)
(*                                                                         *)
(* A JSON value is [t |-> its Python type, v |-> its content]; a dict's    *)
(* content is a function from its keys. A raw text is modelled by what     *)
(* json.loads makes of it: [chars, json], json being <<>> when json.loads  *)
(* raises and <<value>> otherwise.                                         *)

JNull == [t |-> "NoneType", v |-> <<>>]
JNum(n) == [t |-> "int", v |-> n]
JStr(s) == [t |-> "str", v |-> s]
JList(xs) == [t |-> "list", v |-> xs]
JDict(d) == [t |-> "dict", v |-> d]

\* str(x) of a parsed JSON value.
Str(x) ==
    CASE x.t = "str" -> x.v
      [] x.t = "NoneType" -> <<"N", "o", "n", "e">>
      [] x.t = "int" -> <<ToString(x.v)>>
      [] x.t = "list" -> IF x.v = <<>> THEN <<"[", "]">> ELSE <<"[", "...", "]">>
      [] x.t = "dict" -> IF DOMAIN x.v = {} THEN <<"{", "}">> ELSE <<"{", "...", "}">>

\* item.get(key, "")
Get(item, key) == IF key \in DOMAIN item.v THEN item.v[key] ELSE JStr(<<>>)

\* The condition written "q or a": one non-empty field is enough.
KeepsItemEitherField(q, a) == q # <<>> \/ a # <<>>

\* Line 80: if q and a.
KeepsItem(q, a) == q # <<>> /\ a # <<>>

\* Lines 74-82: the loop over the items.
RECURSIVE NormalizeItems(_)
NormalizeItems(items) ==
    IF items = <<>> THEN <<>>
    ELSE LET item == Head(items)
             rest == NormalizeItems(Tail(items))
         IN  IF item.t # "dict" THEN rest
             ELSE LET q == Strip(Str(Get(item, "question")))
                      a == Strip(Str(Get(item, "answer")))
                  IN  IF KeepsItem(q, a)
                        THEN <<[question |-> q, answer |-> a]>> \o rest
                        ELSE rest

\* Lines 66-82, the body of the try: the exception it raises, or its value.
ParseTry(text) ==
    IF text.json = <<>> THEN [raised |-> "JSONDecodeError", value |-> <<>>]
    ELSE LET data == text.json[1]
         IN  IF data.t = "dict" /\ "questions" \in DOMAIN data.v
                   /\ data.v["questions"].t = "list"
               THEN [raised |-> "none",
                     value |-> NormalizeItems(data.v["questions"].v)]
             ELSE IF data.t = "list"
               THEN [raised |-> "none", value |-> NormalizeItems(data.v)]
             ELSE [raised |-> "none", value |-> <<>>]

\* The try without its except clause.
ParseQuizJsonUncaught(text) == ParseTry(text)

_parse_quiz_json(text) ==
    LET r == ParseTry(text)
    IN  IF r.raised # "none" THEN [raised |-> "none", value |-> <<>>]   \* except Exception
        ELSE r

\* The fields an item may carry: <<>> for a missing key, <<x>> for a value.
QuestionPool ==
    { None, Some(JStr(<<>>)), Some(JStr(<<"Q", "1">>)),
      Some(JStr(<<" ", "Q", "2", "\n">>)), Some(JNull) }
AnswerFieldPool ==
    { None, Some(JStr(<<" ">>)), Some(JStr(<<"A", "1">>)),
      Some(JStr(<<"A", "2">>)), Some(JNum(0)) }
MakeItem(q, a) ==
    JDict([k \in {x \in {"question", "answer"} :
                    (x = "question" /\ q # None) \/ (x = "answer" /\ a # None)}
              |-> IF k = "question" THEN q[1] ELSE a[1]])
ItemPool ==
    {MakeItem(q, a) : q \in QuestionPool, a \in AnswerFieldPool}
      \cup {JStr(<<"Q", "1">>), JList(<<>>)}
ItemLists == BoundedSeq(ItemPool, MaxItems)
GoodItem(n) ==
    MakeItem(Some(JStr(<<"Q", ToString(n)>>)), Some(JStr(<<"A", ToString(n)>>)))
\* A reply with more items than were asked for.
SixItems == [n \in 1..6 |-> GoodItem(n)]
\* What json.loads can make of a reply.
JsonValues ==
    {JList(xs) : xs \in ItemLists \cup {SixItems}}
      \cup {JDict([k \in {"questions"} |-> JList(xs)]) : xs \in ItemLists \cup {SixItems}}
      \cup {JDict([k \in {"questions"} |-> x]) :
              x \in {JNull, JStr(<<"Q", "1">>), MakeItem(Some(JStr(<<"Q", "1">>)), None)}}
      \cup {JDict([k \in {"quiz"} |-> JList(<<GoodItem(1)>>)]), JDict(<<>>)}
      \cup {JNull, JNum(0), JStr(<<"Q", "1">>)}
RawTexts ==
    {[chars |-> <<"not json">>, json |-> <<>>]}
      \cup {[chars |-> <<"json">>, json |-> <<x>>] : x \in JsonValues}

InitParse ==
    /\ pc = "call"
    /\ pq_text \in RawTexts
    /\ pq_ret = <<>>
    /\ NormIdle /\ CheckIdle /\ ClientIdle /\ SessionIdle /\ UiIdle

ParseQuizJson ==
    /\ pc = "call"
    /\ pq_ret' = _parse_quiz_json(pq_text)
    /\ pc' = "done"
    /\ UNCHANGED <<pq_text, normVars, checkVars, clientVars, api_ret, uiVars, sessionVars>>

NextParse == ParseQuizJson
SpecParse == InitParse /\ [][NextParse]_vars

-----------------------------------------------------------------------------
(* Claims about _parse_quiz_json, checked under SpecParse.                 *)

\* The item list of a reply, <<>> when it has none, and whether it has one.
HasItemList(text) ==
    /\ text.json # <<>>
    /\ \/ text.json[1].t = "list"
       \/ /\ text.json[1].t = "dict"
          /\ "questions" \in DOMAIN text.json[1].v
          /\ text.json[1].v["questions"].t = "list"
ItemListOf(text) ==
    IF text.json[1].t = "list" THEN text.json[1].v
    ELSE text.json[1].v["questions"].v
FieldText(item, key) ==
    IF key \in DOMAIN item.v THEN Strip(Str(item.v[key])) ELSE <<>>
IsKept(item) ==
    /\ item.t = "dict"
    /\ FieldText(item, "question") # <<>>
    /\ FieldText(item, "answer") # <<>>
KeptItems(items) ==
    LET kept == SelectSeq(items, IsKept)
    IN  [i \in DOMAIN kept |->
            [question |-> FieldText(kept[i], "question"),
             answer |-> FieldText(kept[i], "answer")]]

\* C7: _parse_quiz_json never raises; it returns [] for a text that is not
\* JSON or has no item list, and otherwise exactly the records of the list
\* whose trimmed question and answer are both non-empty, in source order, so
\* every returned item has a non-empty question and answer and the length is
\* whatever survives, not clamped to 3..5.
C7_ParseNeverRaisesKeepsWellFormed ==
    pc = "done" =>
        /\ pq_ret.raised = "none"
        /\ ~HasItemList(pq_text) => pq_ret.value = <<>>
        /\ HasItemList(pq_text) => pq_ret.value = KeptItems(ItemListOf(pq_text))
        /\ (HasItemList(pq_text) /\ ItemListOf(pq_text) = SixItems) =>
              Len(pq_ret.value) = 6
        /\ \A i \in DOMAIN pq_ret.value :
              pq_ret.value[i].question # <<>> /\ pq_ret.value[i].answer # <<>>

C7_Witness ==
    /\ pc = "done"
    /\ HasItemList(pq_text)
    /\ pq_text.json[1].t = "dict"
    /\ ItemListOf(pq_text) =
          << MakeItem(Some(JStr(<<"Q", "1">>)), Some(JStr(<<"A", "1">>))),
             MakeItem(Some(JStr(<<>>)), Some(JStr(<<"A", "2">>))) >>
    /\ pq_ret.value = <<[question |-> <<"Q", "1">>, answer |-> <<"A", "1">>]>>


-----------------------------------------------------------------------------
(* The completion client: _call_openai_chat (app.py 28-42), and            *)
(* generate_explanation, generate_quiz (app.py 45-60, 87-102).             *)
(*                                                                         *)
(* A call is two steps: the request is sent (lines 30-41), and the service *)
(* answers (line 42). A reply is an exception of the SDK ("error"), a      *)
(* message without content ("none") or a text.                             *)

Keys == {None, Some(<<>>), Some(<<"s", "k">>)}

\* The test written "api_key is None": an empty key passes.
HasCredentialNotNone(key) == key # None

\* Line 31: "if not api_key" is true of None and of the empty string.
HasCredential(key) == key # None /\ key # Some(<<>>)

Max(a, b) == IF a > b THEN a ELSE b
\* Line 90.
ClampCount(n) == Max(3, Min(5, n))
DefaultNumQuestions == 4

\* The messages of a request, by what varies in them.
ExplanationRequest(t) == [fn |-> "explanation", topic |-> Strip(t), n |-> 0]
QuizRequest(t, n) == [fn |-> "quiz", topic |-> Strip(t), n |-> ClampCount(n)]

\* Lines 30-41. sofar: the calls this action has begun; await: where the
\* caller waits for the reply.
ChatSend(sofar, req, await) ==
    IF HasCredential(api_key)
      THEN /\ requests' = requests + 1
           /\ calls' = Append(sofar, req)
           /\ raised' = "none"
           /\ pc' = await
      ELSE /\ requests' = requests
           /\ calls' = sofar
           /\ raised' = "RuntimeError"
           /\ pc' = "idle"

StripText(text) == [chars |-> Strip(text.chars), json |-> text.json]

\* Line 42: resp.choices[0].message.content.strip()
ChatResult(reply) ==
    CASE reply.kind = "error" -> [raised |-> "APIError", text |-> <<>>]
      [] reply.kind = "none" -> [raised |-> "AttributeError", text |-> <<>>]
      [] reply.kind = "text" -> [raised |-> "none", text |-> StripText(reply.content)]
Ended(r) == IF r.raised = "none" THEN "ok" ELSE r.raised

Replies(texts) ==
    {[kind |-> "error", content |-> <<>>], [kind |-> "none", content |-> <<>>]}
      \cup {[kind |-> "text", content |-> t] : t \in texts}

Topics == {<<>>, <<" ">>, <<" ", "t", "1", " ">>, <<"t", "2">>}
ExplanationTexts ==
    { [chars |-> <<" ", "e", "1", "\n">>, json |-> <<>>],
      [chars |-> <<"e", "2">>, json |-> <<>>] }
CatItem == MakeItem(Some(JStr(<<"Q", "1">>)), Some(JStr(<<" ", "C", "a", "t", "!">>)))
DogItem == MakeItem(Some(JStr(<<"Q", "2">>)), Some(JStr(<<"d", "o", "g">>)))
NoQuestionItem == MakeItem(Some(JStr(<<>>)), Some(JStr(<<"A", "2">>)))
QuizTexts ==
    { [chars |-> <<"not json">>, json |-> <<>>],
      [chars |-> <<"json 1">>,
       json |-> <<JDict([k \in {"questions"} |-> JList(<<DogItem>>)])>>],
      [chars |-> <<"json 2">>,
       json |-> <<JList(<<CatItem, NoQuestionItem, DogItem>>)>>] }
RepliesTo(req) ==
    IF req.fn = "explanation" THEN Replies(ExplanationTexts) ELSE Replies(QuizTexts)

(* The public functions called directly.                                   *)
InitApi ==
    /\ pc = "idle"
    /\ api_key \in Keys
    /\ requests = 0 /\ run_start = 0
    /\ calls = <<>> /\ responses = <<>> /\ raised = "none"
    /\ api_ret = None
    /\ action = "none" /\ topic_input = <<>>
    /\ NormIdle /\ CheckIdle /\ ParseIdle /\ SessionIdle

generate_explanation(t) ==
    /\ pc = "idle"
    /\ requests < MaxRequests
    /\ action' = "generate_explanation"
    /\ run_start' = requests
    /\ responses' = <<>>
    /\ api_ret' = None
    /\ ChatSend(<<>>, ExplanationRequest(t), "await")
    /\ UNCHANGED <<api_key, topic_input, normVars, checkVars, parseVars, sessionVars>>

generate_quiz(t, n) ==
    /\ pc = "idle"
    /\ requests < MaxRequests
    /\ action' = "generate_quiz"
    /\ run_start' = requests
    /\ responses' = <<>>
    /\ api_ret' = None
    /\ ChatSend(<<>>, QuizRequest(t, n), "await")
    /\ UNCHANGED <<api_key, topic_input, normVars, checkVars, parseVars, sessionVars>>

\* The service answers the call in flight; the function returns or raises.
ApiReply(reply) ==
    /\ pc = "await"
    /\ reply \in RepliesTo(calls[Len(calls)])
    /\ LET r == ChatResult(reply)
       IN  /\ responses' = Append(responses, Ended(r))
           /\ raised' = r.raised
           /\ api_ret' =
                 IF r.raised # "none" THEN None
                 ELSE IF calls[Len(calls)].fn = "explanation" THEN Some(r.text.chars)
                 ELSE Some(_parse_quiz_json(r.text).value)
    /\ pc' = "idle"
    /\ UNCHANGED <<api_key, requests, run_start, calls, uiVars, normVars, checkVars,
                   parseVars, sessionVars>>

NextApi ==
    \/ \E t \in Topics : generate_explanation(t)
    \/ \E t \in Topics, n \in {1, DefaultNumQuestions, 9} : generate_quiz(t, n)
    \/ \E reply \in Replies(ExplanationTexts \cup QuizTexts) : ApiReply(reply)
SpecApi == InitApi /\ [][NextApi]_vars

\* C8: with the credential missing or empty, every call of the completion
\* client, through generate_explanation or generate_quiz, ends in the
\* configuration error, and no request is ever issued.
C8_NoRequestWithoutCredential ==
    (api_key = None \/ api_key = Some(<<>>)) =>
        /\ requests = 0
        /\ calls = <<>>
        /\ pc = "idle"
        /\ api_ret = None
        /\ action # "none" => raised = "RuntimeError"

C8_Witness ==
    /\ api_key = Some(<<>>)
    /\ action = "generate_quiz"
    /\ raised = "RuntimeError"
    /\ requests = 0

-----------------------------------------------------------------------------
(* The Streamlit session (ui.py). Every widget event runs the script once, *)
(* top to bottom; an action below is one script run, cut at the two        *)
(* completion calls it waits for. pc = "idle": no script is running.       *)

\* score and feedback left as they are.
ResetQuizStateKeepsResult ==
    /\ quiz' = <<>>
    /\ user_answers' = <<>>
    /\ UNCHANGED <<score, feedback>>

\* ui.py 43-47.
reset_quiz_state ==
    /\ quiz' = <<>>
    /\ user_answers' = <<>>
    /\ score' = None
    /\ feedback' = <<>>

\* What the user may type into an answer box.
TypedAnswers == {<<"a">>, <<"d", "o", "g">>, <<"?">>}

\* ui.py 29-40: the defaults of a new session.
Init ==
    /\ pc = "idle"
    /\ quiz = <<>> /\ topic = <<>> /\ explanation = <<>>
    /\ user_answers = <<>> /\ score = None /\ feedback = <<>>
    /\ topic_input = <<>>
    /\ action = "none"
    /\ api_key \in Keys
    /\ requests = 0 /\ run_start = 0
    /\ calls = <<>> /\ responses = <<>> /\ raised = "none"
    /\ api_ret = None
    /\ NormIdle /\ CheckIdle /\ ParseIdle

\* A script run begins: nothing of the run before is in flight.
BeginRun(widget) ==
    /\ pc = "idle"
    /\ action' = widget
    /\ run_start' = requests

\* The run calls no completion and raises nothing.
QuietRun ==
    /\ calls' = <<>> /\ responses' = <<>> /\ raised' = "none"
    /\ UNCHANGED <<pc, requests>>

\* ui.py 50: the user edits the Topic box.
TypeTopic(t) ==
    /\ BeginRun("topic")
    /\ t # topic_input
    /\ topic_input' = t
    /\ QuietRun
    /\ UNCHANGED <<api_key, api_ret, sessionVars, normVars, checkVars, parseVars>>

\* ui.py 56-60: Clear.
ClickClear ==
    /\ BeginRun("clear")
    /\ topic' = <<>>
    /\ explanation' = <<>>
    /\ reset_quiz_state
    /\ QuietRun
    /\ UNCHANGED <<api_key, api_ret, topic_input, normVars, checkVars, parseVars>>

\* ui.py 54, 62: Generate clicked while the Topic box is blank: no handler.
ClickGenerateBlank ==
    /\ BeginRun("generate_blank")
    /\ Strip(topic_input) = <<>>
    /\ QuietRun
    /\ UNCHANGED <<api_key, api_ret, topic_input, sessionVars, normVars, checkVars,
                   parseVars>>

\* ui.py 62-66: Generate, up to the explanation request.
ClickGenerate ==
    /\ BeginRun("generate")
    /\ Strip(topic_input) # <<>>
    /\ requests + 2 <= MaxRequests
    /\ reset_quiz_state
    /\ topic' = Strip(topic_input)
    /\ responses' = <<>>
    /\ ChatSend(<<>>, ExplanationRequest(Strip(topic_input)), "await_explanation")
    /\ UNCHANGED <<api_key, api_ret, topic_input, explanation, normVars, checkVars,
                   parseVars>>

\* The failed explanation call swallowed: the handler goes on to the quiz.
ExplanationReplySwallowed(reply) ==
    /\ pc = "await_explanation"
    /\ reply \in Replies(ExplanationTexts)
    /\ LET r == ChatResult(reply)
       IN  /\ responses' = Append(responses, Ended(r))
           /\ explanation' = IF r.raised = "none" THEN r.text.chars ELSE <<>>
           /\ ChatSend(calls, QuizRequest(topic, DefaultNumQuestions), "await_quiz")
    /\ UNCHANGED <<api_key, run_start, api_ret, uiVars, quiz, topic, user_answers,
                   score, feedback, normVars, checkVars, parseVars>>

\* ui.py 66-67: the explanation call returns or raises; on success the
\* explanation is stored and the quiz request is sent.
ExplanationReply(reply) ==
    /\ pc = "await_explanation"
    /\ reply \in Replies(ExplanationTexts)
    /\ LET r == ChatResult(reply)
       IN  /\ responses' = Append(responses, Ended(r))
           /\ IF r.raised # "none"
                THEN /\ raised' = r.raised
                     /\ pc' = "idle"
                     /\ UNCHANGED <<requests, calls, explanation>>
                ELSE /\ explanation' = r.text.chars
                     /\ ChatSend(calls, QuizRequest(topic, DefaultNumQuestions),
                                 "await_quiz")
    /\ UNCHANGED <<api_key, run_start, api_ret, uiVars, quiz, topic, user_answers,
                   score, feedback, normVars, checkVars, parseVars>>

\* ui.py 67-68: the quiz call returns or raises; on success the parsed quiz
\* is stored with one empty answer per question.
QuizReply(reply) ==
    /\ pc = "await_quiz"
    /\ reply \in Replies(QuizTexts)
    /\ LET r == ChatResult(reply)
       IN  /\ responses' = Append(responses, Ended(r))
           /\ raised' = r.raised
           /\ IF r.raised # "none"
                THEN UNCHANGED <<quiz, user_answers>>
                ELSE /\ quiz' = _parse_quiz_json(r.text).value
                     /\ user_answers' = [i \in DOMAIN quiz' |-> <<>>]
    /\ pc' = "idle"
    /\ UNCHANGED <<api_key, requests, run_start, calls, api_ret, uiVars, topic,
                   explanation, score, feedback, normVars, checkVars, parseVars>>

\* ui.py 79-85: the user edits answer box idx.
TypeAnswer(idx, text) ==
    /\ BeginRun("answer")
    /\ idx \in DOMAIN quiz
    /\ IF idx \in DOMAIN user_answers
         THEN /\ text # user_answers[idx]
              /\ user_answers' = [user_answers EXCEPT ![idx] = text]
              /\ raised' = "none"
         ELSE /\ user_answers' = user_answers
              /\ raised' = "IndexError"
    /\ calls' = <<>> /\ responses' = <<>>
    /\ UNCHANGED <<pc, requests, api_key, api_ret, topic_input, quiz, topic,
                   explanation, score, feedback, normVars, checkVars, parseVars>>

\* ui.py 87-91: Submit Answers, shown only with a quiz.
ClickSubmit ==
    /\ BeginRun("submit")
    /\ quiz # <<>>
    /\ LET correct_answers == [i \in DOMAIN quiz |-> quiz[i].answer]
           r == check_answers(user_answers, correct_answers)
       IN  /\ score' = Some(r[1])
           /\ feedback' = r[2]
    /\ QuietRun
    /\ UNCHANGED <<api_key, api_ret, topic_input, quiz, topic, explanation,
                   user_answers, normVars, checkVars, parseVars>>

Next ==
    \/ \E t \in Topics : TypeTopic(t)
    \/ ClickClear
    \/ ClickGenerateBlank
    \/ ClickGenerate
    \/ \E reply \in Replies(ExplanationTexts) : ExplanationReply(reply)
    \/ \E reply \in Replies(QuizTexts) : QuizReply(reply)
    \/ \E idx \in DOMAIN quiz, text \in TypedAnswers \cup {<<>>} :
          TypeAnswer(idx, text)
    \/ ClickSubmit
Spec == Init /\ [][Next]_vars

-----------------------------------------------------------------------------
(* Claims about the session, checked under Spec.                           *)

C10_SessionConsistent ==
    /\ Len(user_answers) = Len(quiz)
    /\ score # None =>
          /\ quiz # <<>>
          /\ Len(feedback) = Len(quiz)
          /\ 0 <= score[1] /\ score[1] <= Len(quiz)
          /\ \A i \in DOMAIN feedback :
                \/ feedback[i] = <<"Correct!">>
                \/ feedback[i] = <<"Not quite. Expected: ">> \o quiz[i].answer
    /\ score = None => feedback = <<>>
    /\ action \in {"generate", "clear"} => score = None /\ feedback = <<>>
    /\ raised # "IndexError"

C10_Witness ==
    /\ pc = "idle"
    /\ action = "submit"
    /\ requests = 4
    /\ Len(quiz) = 2
    /\ score = Some(1)
    /\ feedback[1] = <<"Not quite. Expected: ", "C", "a", "t", "!">>

=============================================================================
